---- MODULE Spec2Model ----
(***************************************************************************)
(* Model of scripts/fetch_ssq.py: the fetch / parse / merge / save         *)
(* pipeline for lottery draw history.                                      *)
(*                                                                         *)
(* Strings are sequences of characters; a character is a natural number:   *)
(* 0..9 are the digits '0'..'9' (in code point order), larger numbers are  *)
(* non-digit characters.  Python compares strings lexicographically by     *)
(* code point, which is what StrLess computes.                             *)
(*                                                                         *)
(* The module holds five specifications over one set of variables:         *)
(*   SpecMerge      dedupe_and_sort on bounded record lists                *)
(*   SpecTransport  HttpClient.get_text and _urllib_get, attempt by attempt*)
(*   SpecTable      parse_500_history_html, both strategies                *)
(*   SpecCwl        the flexible-JSON item loop, both functions            *)
(*   Spec           main(), query by query                                 *)
(* A specification leaves the variables of the others at their idle values.*)
(***************************************************************************)
EXTENDS Integers, Sequences, FiniteSets, TLC

VARIABLES
    \* ---- the optional imports (module globals `requests`, `BeautifulSoup`)
    env

VARIABLES
    \* ---- dedupe_and_sort (merger) ----
    mpc,        \* "call", "returned" (first call), "again" (output fed back)
    records,    \* the argument of the first call
    merged,     \* the list returned by the latest call
    first       \* the list returned by the first call

mergeVars == <<mpc, records, merged, first>>

VARIABLES
    \* ---- Transport: HttpClient.get_text and _urllib_get ----
    tpc,            \* position in the fetch
    impl,           \* "requests" (HttpClient.get_text) or "urllib" (_urllib_get)
    max_retries,    \* HttpClient.max_retries
    backoff,        \* HttpClient.backoff_seconds, in half seconds
    force_encoding, \* whether the caller passed force_encoding
    attempt,        \* the loop variable `attempt` of get_text
    tlog,           \* what each network attempt made so far ended with
    sleeps,         \* the arguments of time.sleep so far, in half seconds
    body,           \* the response being decoded by _urllib_get
    tresult         \* how the fetch ended

transportVars ==
    <<tpc, impl, max_retries, backoff, force_encoding, attempt, tlog, sleeps,
      body, tresult>>

VARIABLES
    \* ---- parse_500_history_html ----
    ppc,        \* "call" or "returned"
    html,       \* the page: whether table id=tdata is there, and its rows
    parsed      \* the returned records

tableVars == <<ppc, html, parsed>>

VARIABLES
    \* ---- flexible-JSON source ----
    cpc,        \* "call" or "done"
    cresp,      \* the endpoint's response
    cout        \* what the source function gave its caller

cwlVars == <<cpc, cresp, cout>>

VARIABLES
    \* ---- main ----
    pc,             \* position in main
    args,           \* the parsed command line
    all_records,    \* main's all_records
    qlog,           \* the transport calls made so far: endpoint and page
    plog,           \* the response to each page query of the paged source
    page_no,        \* the paged loop's page_no
    recs,           \* the `records` list of the running paged source function
    escaped,        \* an exception left the paged source function
    final_records,  \* main's final_records
    file,           \* the output file: how often written, and its rows
    exit            \* main's outcome: "running", 0, 2 as "0", "2", or "exception"

mainVars ==
    <<pc, args, all_records, qlog, plog, page_no, recs, escaped, final_records,
      file, exit>>

vars == <<env, mergeVars, transportVars, tableVars, cwlVars, mainVars>>

----------------------------------------------------------------------------
(* Strings *)

EmptyStr == <<>>

RECURSIVE StrLess(_, _)
\* Python's str < str: lexicographic by code point, a proper prefix is smaller.
StrLess(a, b) ==
    IF b = <<>> THEN FALSE
    ELSE IF a = <<>> THEN TRUE
    ELSE IF Head(a) < Head(b) THEN TRUE
    ELSE IF Head(a) > Head(b) THEN FALSE
    ELSE StrLess(Tail(a), Tail(b))

StrLeq(a, b) == a = b \/ StrLess(a, b)

IsDigit(c) == c \in 0..9

\* re.fullmatch(r"\d+", s)
AllDigits(s) == Len(s) >= 1 /\ \A i \in 1..Len(s) : IsDigit(s[i])

\* re.fullmatch(r"\d{1,2}", s)
OneOrTwoDigits(s) == Len(s) \in {1, 2} /\ \A i \in 1..Len(s) : IsDigit(s[i])

RECURSIVE ToInt(_)
\* int(s) for a digit string
ToInt(s) == IF s = <<>> THEN 0 ELSE 10 * ToInt(SubSeq(s, 1, Len(s) - 1)) + s[Len(s)]

RECURSIVE Digits(_)
\* str(n) for n >= 0
Digits(n) == IF n < 10 THEN <<n>> ELSE Digits(n \div 10) \o <<n % 10>>

\* f"{n:02d}": at least two digits, zero-filled on the left
Format02d(n) == IF n < 10 THEN <<0, n>> ELSE Digits(n)

\* Characters other than digits, by name.
SP == 32
PLUS == 43
COMMA == 44
SEMI == 59
PIPE == 124

RECURSIVE Split(_, _)
\* [n for n in re.split(<one character of delims>, s) if n]
Split(s, delims) ==
    IF s = <<>> THEN <<>>
    ELSE IF Head(s) \in delims THEN Split(Tail(s), delims)
    ELSE LET rest == Split(Tail(s), delims)
         IN  IF Len(s) >= 2 /\ s[2] \notin delims
             THEN <<(<<Head(s)>> \o Head(rest))>> \o Tail(rest)
             ELSE <<(<<Head(s)>>)>> \o rest

RECURSIVE Strip(_)
\* s.strip(), for the one whitespace character of the model
Strip(s) ==
    IF s = <<>> THEN s
    ELSE IF Head(s) = SP THEN Strip(Tail(s))
    ELSE IF s[Len(s)] = SP THEN Strip(SubSeq(s, 1, Len(s) - 1))
    ELSE s

SeqsUpTo(S, n) == UNION {[1..k -> S] : k \in 0..n}

----------------------------------------------------------------------------
(* DrawRecord *)

DrawRecord(issue, reds, blue, date) ==
    [issue |-> issue, reds |-> reds, blue |-> blue, date |-> date]

\* DrawRecord.to_row
ToRow(r) == <<r.issue>> \o r.reds \o <<r.blue, r.date>>

\* Two-digit number strings "01" .. "99"
Num(n) == <<n \div 10, n % 10>>

SampleReds == <<Num(1), Num(2), Num(3), Num(4), Num(5), Num(6)>>

----------------------------------------------------------------------------
(* Idle values: what a specification leaves the other parts' variables at *)

EmptyDict == [x \in {} |-> x]

NoBody ==
    [content_encoding |-> "", compressed_ok |-> FALSE, charset_known |-> FALSE,
     bytes |-> "none", codec |-> "none"]

NoHtml == [has_table |-> FALSE, rows |-> <<>>]

NoResponse == [status |-> "none", where |-> "none", items |-> <<>>]

NoOutput == [raised |-> FALSE, recs |-> <<>>]

NoArgs == [source |-> "none", max_pages |-> 0, output_has_dir |-> TRUE, selftest |-> FALSE]

NoFile == [writes |-> 0, header |-> <<>>, rows |-> <<>>]

MergeIdle ==
    /\ mpc = "idle"
    /\ records = <<>>
    /\ merged = <<>>
    /\ first = <<>>

TransportIdle ==
    /\ tpc = "idle"
    /\ impl = "none"
    /\ max_retries = 0
    /\ backoff = 0
    /\ force_encoding = FALSE
    /\ attempt = 1
    /\ tlog = <<>>
    /\ sleeps = <<>>
    /\ body = NoBody
    /\ tresult = "none"

TableIdle ==
    /\ ppc = "idle"
    /\ html = NoHtml
    /\ parsed = <<>>

CwlIdle ==
    /\ cpc = "idle"
    /\ cresp = NoResponse
    /\ cout = NoOutput

MainIdle ==
    /\ pc = "idle"
    /\ args = NoArgs
    /\ all_records = <<>>
    /\ qlog = <<>>
    /\ plog = <<>>
    /\ page_no = 1
    /\ recs = <<>>
    /\ escaped = FALSE
    /\ final_records = <<>>
    /\ file = NoFile
    /\ exit = "running"

Envs == [requests : BOOLEAN, bs : BOOLEAN]

NoEnv == [requests |-> FALSE, bs |-> FALSE]

----------------------------------------------------------------------------
(* dedupe_and_sort *)

\* Bound on the length of the list given to dedupe_and_sort.
MaxRecords == 3

\* Issues the merger is run on: "", "1", "10", "2", "02".
MergeIssues == {<<>>, <<1>>, <<1, 0>>, <<2>>, <<0, 2>>}

\* Two records of one issue differ by their date.
MergeDates == {<<1>>, <<2>>}

MergeInputs ==
    {DrawRecord(i, SampleReds, Num(7), d) : i \in MergeIssues, d \in MergeDates}

\* d[k] = v
DictPut(d, k, v) == [x \in DOMAIN d \cup {k} |-> IF x = k THEN v ELSE d[x]]

\* A loop body that keeps the first record of an issue.
ByIssueStepFirstWins(d, r) ==
    IF r.issue = EmptyStr \/ r.issue \in DOMAIN d THEN d ELSE DictPut(d, r.issue, r)

\* The body of `for r in records`: skip an empty issue, else overwrite.
ByIssueStep(d, r) ==
    IF r.issue = EmptyStr THEN d ELSE DictPut(d, r.issue, r)

RECURSIVE ByIssueFrom(_, _)
ByIssueFrom(d, rs) ==
    IF rs = <<>> THEN d ELSE ByIssueFrom(ByIssueStep(d, Head(rs)), Tail(rs))

\* A loop that stops one record early.
ByIssueAllButLast(rs) ==
    ByIssueFrom(EmptyDict, IF rs = <<>> THEN rs ELSE SubSeq(rs, 1, Len(rs) - 1))

\* by_issue after the loop over records
ByIssue(rs) == ByIssueFrom(EmptyDict, rs)

RECURSIVE SortedDescending(_)
\* A sort in the wrong direction.
SortedDescending(S) ==
    IF S = {} THEN <<>>
    ELSE LET m == CHOOSE a \in S : \A b \in S : StrLeq(b, a)
         IN <<m>> \o SortedDescending(S \ {m})

RECURSIVE Sorted(_)
\* sorted(keys): ascending by Python's string order.
Sorted(S) ==
    IF S = {} THEN <<>>
    ELSE LET m == CHOOSE a \in S : \A b \in S : StrLeq(a, b)
         IN <<m>> \o Sorted(S \ {m})

\* dedupe_and_sort(records)
DedupeAndSort(rs) ==
    LET d == ByIssue(rs)
        ks == Sorted(DOMAIN d)
    IN  [i \in 1..Len(ks) |-> d[ks[i]]]

notMerge == <<env, transportVars, tableVars, cwlVars, mainVars>>

MergeInit ==
    /\ env = NoEnv
    /\ mpc = "call"
    /\ records \in SeqsUpTo(MergeInputs, MaxRecords)
    /\ merged = <<>>
    /\ first = <<>>
    /\ TransportIdle /\ TableIdle /\ CwlIdle /\ MainIdle

\* final_records = dedupe_and_sort(records)
MergeCall ==
    /\ mpc = "call"
    /\ merged' = DedupeAndSort(records)
    /\ first' = DedupeAndSort(records)
    /\ mpc' = "returned"
    /\ UNCHANGED <<records, notMerge>>

\* The output is fed back: dedupe_and_sort(dedupe_and_sort(records))
MergeAgain ==
    /\ mpc = "returned"
    /\ merged' = DedupeAndSort(merged)
    /\ mpc' = "again"
    /\ UNCHANGED <<records, first, notMerge>>

MergeNext == MergeCall \/ MergeAgain

SpecMerge == MergeInit /\ [][MergeNext]_vars

\* The index of the last record of `rs` with issue `k`.
LastIndexOf(rs, k) ==
    CHOOSE j \in 1..Len(rs) :
        /\ rs[j].issue = k
        /\ \A l \in (j + 1)..Len(rs) : rs[l].issue # k

\* C1: dedupe_and_sort returns exactly one record for each distinct non-empty
\* issue of its input, that record is the last one of the input with that
\* issue, and no record with an empty issue is returned.
C1_LastWriteWins ==
    mpc = "returned" =>
        /\ {merged[i].issue : i \in 1..Len(merged)}
               = {records[j].issue : j \in 1..Len(records)} \ {EmptyStr}
        /\ \A i, j \in 1..Len(merged) : merged[i].issue = merged[j].issue => i = j
        /\ \A i \in 1..Len(merged) :
               merged[i] = records[LastIndexOf(records, merged[i].issue)]

\* C1 witness: the input holds two different records of one issue and a record
\* with an empty issue, and the call has returned.
C1_Witness ==
    /\ mpc = "returned"
    /\ \E j, k \in 1..Len(records) :
          j < k /\ records[j].issue = records[k].issue
          /\ records[j].issue # EmptyStr /\ records[j] # records[k]
    /\ \E j \in 1..Len(records) : records[j].issue = EmptyStr
    /\ Len(merged) = 1

\* C2: the issues of the returned records are in strictly ascending lexical
\* order (so none is repeated).
C2_AscendingIssues ==
    mpc = "returned" =>
        \A i \in 1..(Len(merged) - 1) : StrLess(merged[i].issue, merged[i + 1].issue)

\* C2 witness: an input given in descending order, with "10" and "2" (lexical
\* order differs from numeric order), has been sorted.
C2_Witness ==
    /\ mpc = "returned"
    /\ Len(records) >= 2
    /\ records[1].issue = <<2>>
    /\ records[2].issue = <<1, 0>>
    /\ Len(merged) = 2
    /\ merged[1].issue = <<1, 0>>

\* C10: dedupe_and_sort applied to its own output returns that output.
C10_Idempotent ==
    mpc = "again" => merged = first

\* C10 witness: the second call has returned, on a first input that had a
\* duplicate issue, an empty issue and was not sorted.
C10_Witness ==
    /\ mpc = "again"
    /\ Len(records) = 3
    /\ Len(first) = 2
    /\ records[1].issue = <<2>>
    /\ records[2].issue = <<1>>
    /\ records[3].issue = <<2>>

----------------------------------------------------------------------------
(* Transport *)

\* HttpClient.__init__: max_retries: int = 3
DefaultMaxRetries == 3

\* HttpClient.__init__: backoff_seconds: float = 1.5, in half seconds
DefaultBackoff == 3

\* Bound on the max_retries a client is built with.
MaxRetriesBound == 3

\* Backoff bases tried, in half seconds: 1.0 s and the default 1.5 s.
Backoffs == {2, DefaultBackoff}

\* What ends a failed attempt: session.get / urlopen raising, or
\* raise_for_status / urlopen raising on a non-success status.
HttpFailures == {"conn_error", "bad_status"}

\* Content-Encoding headers of a response read by _urllib_get.
ContentEncodings == {"", "gzip", "deflate"}

notTransport == <<env, mergeVars, tableVars, cwlVars, mainVars>>

\* The arguments a fetch is called with.  _urllib_get has no retry
\* parameters; max_retries and backoff are HttpClient's alone.
TransportInit ==
    /\ env = NoEnv
    /\ tpc = "try"
    /\ impl \in {"requests", "urllib"}
    /\ max_retries \in (IF impl = "requests" THEN 0..MaxRetriesBound ELSE {0})
    /\ backoff \in (IF impl = "requests" THEN Backoffs ELSE {0})
    /\ force_encoding \in BOOLEAN
    /\ attempt = 1
    /\ tlog = <<>>
    /\ sleeps = <<>>
    /\ body = NoBody
    /\ tresult = "none"
    /\ MergeIdle /\ TableIdle /\ CwlIdle /\ MainIdle

\* backoff_seconds * (2 ** (attempt - 1))
BackoffDelay(base, k) == base * (2 ^ (k - 1))

\* get_text: session.get and raise_for_status succeed; return resp.text.
GetTextOk ==
    /\ tpc = "try"
    /\ impl = "requests"
    /\ attempt <= max_retries
    /\ tlog' = Append(tlog, "ok")
    /\ tresult' = "text"
    /\ tpc' = "done"
    /\ UNCHANGED <<impl, max_retries, backoff, force_encoding, attempt, sleeps, body>>
    /\ UNCHANGED notTransport

\* get_text: the attempt raises; sleep and go on, or raise on the last one.
GetTextFail ==
    /\ tpc = "try"
    /\ impl = "requests"
    /\ attempt <= max_retries
    /\ \E f \in HttpFailures : tlog' = Append(tlog, f)
    /\ IF attempt < max_retries
       THEN /\ sleeps' = Append(sleeps, BackoffDelay(backoff, attempt))
            /\ attempt' = attempt + 1
            /\ UNCHANGED <<tpc, tresult>>
       ELSE /\ tresult' = "raised"
            /\ tpc' = "done"
            /\ UNCHANGED <<sleeps, attempt>>
    /\ UNCHANGED <<impl, max_retries, backoff, force_encoding, body>>
    /\ UNCHANGED notTransport

\* get_text: range(1, max_retries + 1) is exhausted without a return or a
\* raise (max_retries = 0): the function falls off its end and returns None.
GetTextFallThrough ==
    /\ tpc = "try"
    /\ impl = "requests"
    /\ attempt > max_retries
    /\ tresult' = "None"
    /\ tpc' = "done"
    /\ UNCHANGED <<impl, max_retries, backoff, force_encoding, attempt, tlog, sleeps, body>>
    /\ UNCHANGED notTransport

\* _urllib_get: urlopen or resp.read raises; nothing in _urllib_get catches it.
UrllibOpenFail ==
    /\ tpc = "try"
    /\ impl = "urllib"
    /\ \E f \in HttpFailures : tlog' = Append(tlog, f)
    /\ tresult' = "raised"
    /\ tpc' = "done"
    /\ UNCHANGED <<impl, max_retries, backoff, force_encoding, attempt, sleeps, body>>
    /\ UNCHANGED notTransport

\* _urllib_get: the response is read.
UrllibOpenOk ==
    /\ tpc = "try"
    /\ impl = "urllib"
    /\ tlog' = Append(tlog, "ok")
    /\ \E ce \in ContentEncodings, ok \in BOOLEAN, cs \in BOOLEAN :
          body' = [content_encoding |-> ce, compressed_ok |-> ok, charset_known |-> cs,
                   bytes |-> "as_read", codec |-> "none"]
    /\ tpc' = "decode"
    /\ UNCHANGED <<impl, max_retries, backoff, force_encoding, attempt, sleeps, tresult>>
    /\ UNCHANGED notTransport

\* _decompress_body: a failed decompression falls back to the bytes as read.
DecompressBody(b) ==
    IF b.content_encoding \in {"gzip", "deflate"} /\ b.compressed_ok
    THEN "decompressed"
    ELSE "as_read"

\* The codec _urllib_get decodes with: force_encoding, else the charset= of
\* the first 4096 bytes, else utf-8.
ChosenEncoding(forced, b) ==
    IF forced THEN "forced" ELSE IF b.charset_known THEN "meta" ELSE "utf-8"

\* _urllib_get: decompress, pick the encoding, decode with errors="ignore"
\* (which raises only for an unknown codec name; the utf-8 fallback then
\* decodes) and return the text.
UrllibDecode ==
    /\ tpc = "decode"
    /\ impl = "urllib"
    /\ tresult' = "text"
    /\ body' = [body EXCEPT !.bytes = DecompressBody(body),
                            !.codec = ChosenEncoding(force_encoding, body)]
    /\ tpc' = "done"
    /\ UNCHANGED <<impl, max_retries, backoff, force_encoding, attempt, tlog, sleeps>>
    /\ UNCHANGED notTransport

TransportNext ==
    \/ GetTextOk \/ GetTextFail \/ GetTextFallThrough
    \/ UrllibOpenFail \/ UrllibOpenOk \/ UrllibDecode

SpecTransport == TransportInit /\ [][TransportNext]_vars

\* The retry policy's N for the fetch in progress: the client's max_retries,
\* and the policy's default for the fallback, which takes no such parameter.
PolicyAttempts == IF impl = "requests" THEN max_retries ELSE DefaultMaxRetries

PolicyBackoff == IF impl = "requests" THEN backoff ELSE DefaultBackoff

\* C5: every fetch of either implementation makes at most N attempts; a
\* success returns at once; a failure on attempt k < N is followed by a sleep
\* of base * 2^(k-1) and another attempt; the error is raised only after the
\* N-th attempt failed, with no sleep after it.
C5_RetryPolicy ==
    (tpc = "done" /\ PolicyAttempts >= 1) =>
        /\ Len(tlog) <= PolicyAttempts
        /\ \A k \in 1..(Len(tlog) - 1) : tlog[k] # "ok"
        /\ tresult = "raised" <=> (Len(tlog) = PolicyAttempts /\ tlog[Len(tlog)] # "ok")
        /\ sleeps = [k \in 1..(Len(tlog) - 1) |-> BackoffDelay(PolicyBackoff, k)]

\* The retry policy as HttpClient.get_text implements it (C5 restricted to the
\* session-based client).
GetTextRetryPolicy ==
    (tpc = "done" /\ impl = "requests" /\ max_retries >= 1) =>
        /\ Len(tlog) <= max_retries
        /\ \A k \in 1..(Len(tlog) - 1) : tlog[k] # "ok"
        /\ tresult = "raised" <=> (Len(tlog) = max_retries /\ tlog[Len(tlog)] # "ok")
        /\ tresult = "text" <=> tlog[Len(tlog)] = "ok"
        /\ sleeps = [k \in 1..(Len(tlog) - 1) |-> BackoffDelay(backoff, k)]

\* _urllib_get makes one attempt and never sleeps.
UrllibSingleAttempt ==
    (tpc = "done" /\ impl = "urllib") => (Len(tlog) = 1 /\ sleeps = <<>>)

----------------------------------------------------------------------------
(* Source A: the 500.com history table *)

(* A page is modelled after markup is resolved: whether the table with      *)
(* id="tdata" is there, and for each of its rows the text of each cell, as  *)
(* both get_text(strip=True) and _strip_tags give it for a cell of plain    *)
(* text.                                                                    *)

\* Bound on the number of rows of a parsed table.
MaxRows == 2

\* f"{int(x):02d}"
Pad2(x) == Format02d(ToInt(x))

\* parse_500_history_html_regex, one <tr>: the records it appends.
RegexRow(row) ==
    IF Len(row) < 16 THEN <<>>
    ELSE IF ~(/\ AllDigits(row[1])
              /\ \A i \in 2..7 : OneOrTwoDigits(row[i])
              /\ OneOrTwoDigits(row[8]))
    THEN <<>>
    ELSE <<DrawRecord(row[1], [i \in 1..6 |-> Pad2(row[i + 1])], Pad2(row[8]), row[16])>>

\* parse_500_history_html with BeautifulSoup, one <tr>: the records it appends.
SoupRow(row) ==
    IF Len(row) = 0 \/ Len(row) < 16 THEN <<>>
    ELSE IF row[1] = EmptyStr \/ row[8] = EmptyStr \/ \E i \in 2..7 : row[i] = EmptyStr
    THEN <<>>
    ELSE <<DrawRecord(row[1], [i \in 1..6 |-> row[i + 1]], row[8], row[16])>>

RECURSIVE RegexRows(_)
RegexRows(rows) ==
    IF rows = <<>> THEN <<>> ELSE RegexRow(Head(rows)) \o RegexRows(Tail(rows))

RECURSIVE SoupRows(_)
SoupRows(rows) ==
    IF rows = <<>> THEN <<>> ELSE SoupRow(Head(rows)) \o SoupRows(Tail(rows))

\* parse_500_history_html_regex(html_text)
Parse500HistoryHtmlRegex(h) == IF ~h.has_table THEN <<>> ELSE RegexRows(h.rows)

\* parse_500_history_html(html_text), with BeautifulSoup there (bs) or None
Parse500HistoryHtml(bs, h) ==
    IF ~bs THEN Parse500HistoryHtmlRegex(h)
    ELSE IF ~h.has_table THEN <<>>
    ELSE SoupRows(h.rows)

\* A row of n cells: issue, six primaries (the first one given), the
\* secondary, seven empty cells, the date, and one more cell.
MkRow(issue, red1, blue, n) ==
    SubSeq(<<issue, red1, Num(9), Num(10), Num(11), Num(12), Num(13), blue,
             <<>>, <<>>, <<>>, <<>>, <<>>, <<>>, <<>>,
             <<2, 0, 2, 3>>, <<>>>>, 1, n)

\* Cell texts tried: "23", "x", "" as issue; "8", "08", "123", "x", "" as a
\* primary number; "7", "16" as the secondary number.
TableIssues == {<<2, 3>>, <<120>>, <<>>}
TableReds == {<<8>>, <<0, 8>>, <<1, 2, 3>>, <<120>>, <<>>}
TableBlues == {<<7>>, <<1, 6>>}
TableWidths == {15, 16, 17}

TableRows ==
    {MkRow(i, r, b, n) : i \in TableIssues, r \in TableReds, b \in TableBlues,
                         n \in TableWidths}

TablePages ==
    {[has_table |-> t, rows |-> rs] : t \in BOOLEAN, rs \in SeqsUpTo(TableRows, MaxRows)}

notTable == <<env, mergeVars, transportVars, cwlVars, mainVars>>

TableInit ==
    /\ env \in {e \in Envs : ~e.requests}
    /\ ppc = "call"
    /\ html \in TablePages
    /\ parsed = <<>>
    /\ MergeIdle /\ TransportIdle /\ CwlIdle /\ MainIdle

\* records = parse_500_history_html(text)
TableParse ==
    /\ ppc = "call"
    /\ parsed' = Parse500HistoryHtml(env.bs, html)
    /\ ppc' = "returned"
    /\ UNCHANGED <<html, notTable>>

TableNext == TableParse

SpecTable == TableInit /\ [][TableNext]_vars

\* What the claim asks of a row: at least 16 cells, an all-digit issue, and
\* one-or-two-digit primary and secondary numbers.
ClaimedValidRow(row) ==
    /\ Len(row) >= 16
    /\ AllDigits(row[1])
    /\ \A i \in 2..8 : OneOrTwoDigits(row[i])

\* Two-digit zero-padded form: '8' becomes '08'.
ClaimedPad(x) == IF Len(x) = 1 THEN <<0>> \o x ELSE x

RECURSIVE ClaimedRows(_)
ClaimedRows(rows) ==
    IF rows = <<>> THEN <<>>
    ELSE (IF ClaimedValidRow(Head(rows))
          THEN <<DrawRecord(Head(rows)[1],
                            [i \in 1..6 |-> ClaimedPad(Head(rows)[i + 1])],
                            ClaimedPad(Head(rows)[8]), Head(rows)[16])>>
          ELSE <<>>) \o ClaimedRows(Tail(rows))

\* C6: whichever strategy is active, parse_500_history_html returns exactly
\* one record, with two-digit zero-padded numbers, for each row with at least
\* 16 cells, an all-digit issue and one-or-two-digit numbers, and none for any
\* other row.
C6_StrategiesAgree ==
    ppc = "returned" =>
        parsed = (IF html.has_table THEN ClaimedRows(html.rows) ELSE <<>>)

\* The regex strategy alone does what C6 states.
RegexStrategyConforms ==
    (ppc = "returned" /\ ~env.bs) =>
        parsed = (IF html.has_table THEN ClaimedRows(html.rows) ELSE <<>>)

\* The two strategies agree on the rows whose cells are already two-digit
\* numbers: the only rows on which BeautifulSoup's unvalidated, unpadded
\* record is also the regex strategy's.
StrategiesAgreeOnCanonicalRows ==
    (ppc = "returned" /\ html.has_table
       /\ \A k \in 1..Len(html.rows) :
             Len(html.rows[k]) >= 16 =>
                /\ AllDigits(html.rows[k][1])
                /\ \A i \in 2..8 : Len(html.rows[k][i]) = 2 /\ AllDigits(html.rows[k][i]))
    => parsed = Parse500HistoryHtmlRegex(html)

----------------------------------------------------------------------------
(* JSON items *)

(* An item of a JSON list.  A key that is absent, null or "" is the empty  *)
(* string (the code reads every key through `or`, which treats the three   *)
(* alike).  reds / red hold a string, a list of strings or a number; an    *)
(* item that is not a JSON object (null, a string, a number) has isdict    *)
(* FALSE, and .get on it raises AttributeError.                            *)

NoValue == [kind |-> "str", str |-> <<>>, list |-> <<>>]

StrValue(s) == [kind |-> "str", str |-> s, list |-> <<>>]

ListValue(l) == [kind |-> "list", str |-> <<>>, list |-> l]

NumberValue == [kind |-> "number", str |-> <<>>, list |-> <<>>]

\* bool(v)
Truthy(v) ==
    \/ v.kind = "str" /\ v.str # <<>>
    \/ v.kind = "list" /\ v.list # <<>>
    \/ v.kind = "number"

BlankItem ==
    [isdict |-> TRUE, code |-> <<>>, issue |-> <<>>, lotteryDrawNum |-> <<>>,
     lotteryDrawResult |-> <<>>, reds |-> NoValue, red |-> NoValue,
     blue |-> <<>>, blueBall |-> <<>>, date |-> <<>>, lotteryDrawTime |-> <<>>]

\* a or b or ""
Or2(a, b) == IF a # <<>> THEN a ELSE b

Or3(a, b, c) == IF a # <<>> THEN a ELSE IF b # <<>> THEN b ELSE c

NoRecords == [raised |-> FALSE, recs |-> <<>>]

Raised == [raised |-> TRUE, recs |-> <<>>]

OneRecord(r) == [raised |-> FALSE, recs |-> <<r>>]

----------------------------------------------------------------------------
(* Source B items: sporttery *)

PagedDelims == {SP, COMMA, SEMI, PLUS}

\* The body of `for it in items` of the paged source (both functions hold the
\* same body): what it appends, or that it raises.
PagedItem(it) ==
    IF ~it.isdict THEN Raised
    ELSE LET issue == Or2(it.lotteryDrawNum, it.issue)
             code == Strip(it.lotteryDrawResult)
             open_time == Or2(it.lotteryDrawTime, it.date)
             nums == Split(code, PagedDelims)
         IN  IF issue = <<>> \/ code = <<>> THEN NoRecords
             ELSE IF Len(nums) >= 7
             THEN OneRecord(DrawRecord(issue, SubSeq(nums, 1, 6), nums[7], open_time))
             ELSE NoRecords

RECURSIVE PagedItems(_)
\* The whole `for it in items` loop: the records appended, and whether an item
\* raised (the records appended before it stay appended).
PagedItems(items) ==
    IF items = <<>> THEN NoRecords
    ELSE LET h == PagedItem(Head(items))
         IN  IF h.raised THEN h
             ELSE LET t == PagedItems(Tail(items))
                  IN  [raised |-> t.raised, recs |-> h.recs \o t.recs]

----------------------------------------------------------------------------
(* Source C: cwl, the flexible JSON *)

\* Bound on the length of the item list of a flexible-JSON response.
MaxItems == 2

CwlDelims == {SP, COMMA, SEMI, PIPE, PLUS}

\* The body of `for it in result_list` (both functions hold the same body):
\* what it appends, or that it raises (it.get on a non-object, list(reds) on
\* a number).
CwlItem(it) ==
    IF ~it.isdict THEN Raised
    ELSE LET issue == Or3(it.code, it.issue, it.lotteryDrawNum)
             reds == IF Truthy(it.reds) THEN it.reds
                     ELSE IF Truthy(it.red) THEN it.red ELSE NoValue
             blue == Or2(it.blue, it.blueBall)
             open_time == Or2(it.date, it.lotteryDrawTime)
         IN  IF reds.kind = "number" THEN Raised
             ELSE LET red_list == IF reds.kind = "str" THEN Split(reds.str, CwlDelims)
                                  ELSE reds.list
                  IN  IF ~(issue # <<>> /\ blue # <<>> /\ Len(red_list) >= 6)
                      THEN NoRecords
                      ELSE OneRecord(DrawRecord(issue, SubSeq(red_list, 1, 6), blue, open_time))

RECURSIVE CwlItems(_)
\* The whole `for it in result_list` loop.
CwlItems(items) ==
    IF items = <<>> THEN NoRecords
    ELSE LET h == CwlItem(Head(items))
         IN  IF h.raised THEN h
             ELSE LET t == CwlItems(Tail(items))
                  IN  [raised |-> t.raised, recs |-> h.recs \o t.recs]

(* A response: status "reqfail" (the transport raised), "badjson" (the     *)
(* text is not JSON) or "ok"; for "ok", `where` says where the item list   *)
(* sits: under "result", under "value" as {"list": [...]}, nowhere         *)
(* ("missing"), or the document is not an object at all ("notdict").       *)

\* data.get("result") or data.get("list") or data.get("value") or [], and
\* the ["list"] of a dict: the list, or that data.get raised.
ResultList(resp) ==
    IF resp.where = "notdict" THEN [raised |-> TRUE, items |-> <<>>]
    ELSE IF resp.where = "missing" THEN [raised |-> FALSE, items |-> <<>>]
    ELSE [raised |-> FALSE, items |-> resp.items]

\* fetch_from_cwl_with_urllib(issue_count): the returned list, or raised.
FetchFromCwlWithUrllib(resp) ==
    IF resp.status = "reqfail" THEN Raised
    ELSE IF resp.status = "badjson" THEN NoRecords
    ELSE LET rl == ResultList(resp)
         IN  IF rl.raised THEN Raised
             ELSE LET out == CwlItems(rl.items)
                  IN  IF out.raised THEN Raised ELSE out

\* try_fetch_from_cwl, the non-paged candidate: what it appends to `records`.
\* get_json raises for a failed request and for invalid JSON; `except
\* Exception: continue` ends the candidate and keeps what was appended.
TryFetchNonPaged(resp) ==
    IF resp.status # "ok" THEN <<>>
    ELSE LET rl == ResultList(resp)
         IN  IF rl.raised THEN <<>> ELSE CwlItems(rl.items).recs

RedsString == <<0, 1, COMMA, 0, 2, COMMA, 0, 3, COMMA, 0, 4, COMMA, 0, 5, COMMA, 0, 6>>

FiveRedsString == <<0, 1, SP, 0, 2, SP, 0, 3, SP, 0, 4, PIPE, 0, 5>>

\* {"code": "23", "reds": "01,02,03,04,05,06", "blue": "07", "date": "2023"}
ItemGoodStr ==
    [BlankItem EXCEPT !.code = <<2, 3>>, !.reds = StrValue(RedsString),
                      !.blue = Num(7), !.date = <<2, 0, 2, 3>>]

\* {"issue": "24", "red": ["01", .., "06", "07"], "blueBall": "08"}
ItemGoodList ==
    [BlankItem EXCEPT !.issue = <<2, 4>>, !.red = ListValue(SampleReds \o <<Num(7)>>),
                      !.blueBall = Num(8), !.lotteryDrawTime = <<2, 0, 2, 4>>]

\* five primaries only
ItemShort == [ItemGoodStr EXCEPT !.reds = StrValue(FiveRedsString)]

\* no secondary number
ItemNoBlue == [ItemGoodStr EXCEPT !.blue = <<>>]

\* no issue under any key
ItemNoIssue == [ItemGoodStr EXCEPT !.code = <<>>]

\* null, or a string, in place of the object
ItemNotDict == [BlankItem EXCEPT !.isdict = FALSE]

\* {"code": "23", "reds": 5, "blue": "07"}
ItemNumberReds == [ItemGoodStr EXCEPT !.reds = NumberValue]

CwlItemSet ==
    {ItemGoodStr, ItemGoodList, ItemShort, ItemNoBlue, ItemNoIssue, ItemNotDict,
     ItemNumberReds}

CwlResponses ==
    {[status |-> "ok", where |-> w, items |-> its] :
        w \in {"result", "value.list"}, its \in SeqsUpTo(CwlItemSet, MaxItems)}
    \cup {[status |-> s, where |-> w, items |-> <<>>] :
        s \in {"ok"}, w \in {"missing", "notdict"}}
    \cup {[status |-> s, where |-> "none", items |-> <<>>] : s \in {"reqfail", "badjson"}}

notCwl == <<env, mergeVars, transportVars, tableVars, mainVars>>

CwlInit ==
    /\ env \in {e \in Envs : ~e.bs}
    /\ cpc = "call"
    /\ cresp \in CwlResponses
    /\ cout = NoOutput
    /\ MergeIdle /\ TransportIdle /\ TableIdle /\ MainIdle

\* main without requests: all_records.extend(fetch_from_cwl_with_urllib(..)),
\* the call alone.
CwlFetchUrllib ==
    /\ cpc = "call"
    /\ ~env.requests
    /\ cout' = FetchFromCwlWithUrllib(cresp)
    /\ cpc' = "done"
    /\ UNCHANGED <<cresp, notCwl>>

\* try_fetch_from_cwl's non-paged candidate, from an empty `records`.
CwlFetchSession ==
    /\ cpc = "call"
    /\ env.requests
    /\ cout' = [raised |-> FALSE, recs |-> TryFetchNonPaged(cresp)]
    /\ cpc' = "done"
    /\ UNCHANGED <<cresp, notCwl>>

CwlNext == CwlFetchUrllib \/ CwlFetchSession

SpecCwl == CwlInit /\ [][CwlNext]_vars

\* What the claim requires of an item: a non-empty issue, a non-empty
\* secondary number and at least 6 primary numbers.
ClaimedPrimaries(it) ==
    LET reds == IF Truthy(it.reds) THEN it.reds
                ELSE IF Truthy(it.red) THEN it.red ELSE NoValue
    IN  IF reds.kind = "str" THEN Split(reds.str, CwlDelims)
        ELSE IF reds.kind = "list" THEN reds.list
        ELSE <<>>

ClaimedItemOk(it) ==
    /\ it.isdict
    /\ Or3(it.code, it.issue, it.lotteryDrawNum) # <<>>
    /\ Or2(it.blue, it.blueBall) # <<>>
    /\ Len(ClaimedPrimaries(it)) >= 6

RECURSIVE ClaimedCwlRecords(_)
ClaimedCwlRecords(items) ==
    IF items = <<>> THEN <<>>
    ELSE (IF ClaimedItemOk(Head(items))
          THEN <<DrawRecord(Or3(Head(items).code, Head(items).issue, Head(items).lotteryDrawNum),
                            SubSeq(ClaimedPrimaries(Head(items)), 1, 6),
                            Or2(Head(items).blue, Head(items).blueBall),
                            Or2(Head(items).date, Head(items).lotteryDrawTime))>>
          ELSE <<>>) \o ClaimedCwlRecords(Tail(items))

\* C9: for every item list of a response, each item with a non-empty issue, a
\* non-empty secondary number and at least 6 primaries yields exactly one
\* record (of its first 6 primaries), whatever the other items of the list
\* are, and every other item yields none: the source returns exactly those
\* records.
C9_ItemGranularity ==
    (cpc = "done" /\ cresp.status = "ok" /\ cresp.where \in {"result", "value.list"}) =>
        (~cout.raised /\ cout.recs = ClaimedCwlRecords(cresp.items))

\* C9 holds of every list whose items are all JSON objects with reds / red a
\* string or a list: there a failing item is skipped and the rest is kept.
ItemGranularityAmongObjects ==
    (cpc = "done" /\ cresp.status = "ok" /\ cresp.where \in {"result", "value.list"}
       /\ \A i \in 1..Len(cresp.items) :
             cresp.items[i].isdict /\ cresp.items[i].reds.kind # "number") =>
        (~cout.raised /\ cout.recs = ClaimedCwlRecords(cresp.items))

----------------------------------------------------------------------------
(* Sink *)

CsvHeader == <<"issue", "red1", "red2", "red3", "red4", "red5", "red6", "blue", "date">>

\* save_to_csv(records, output_path): os.makedirs(os.path.dirname(path),
\* exist_ok=True) raises FileNotFoundError when the path has no directory
\* part (dirname is ""); otherwise the file is opened with "w" and the rows
\* written: the header row, then one row for each record.
SaveToCsv(f, rs, has_dir) ==
    IF ~has_dir THEN [raised |-> TRUE, file |-> f]
    ELSE [raised |-> FALSE,
          file |-> [writes |-> f.writes + 1, header |-> CsvHeader,
                    rows |-> [i \in 1..Len(rs) |-> ToRow(rs[i])]]]

----------------------------------------------------------------------------
(* main *)

\* Bound on --max-pages.
MaxPagesBound == 3

Sources == {"all", "sporttery", "500", "cwl"}

\* {"lotteryDrawNum": "21", "lotteryDrawResult": "01 02 03 04 05 06+07", ..}
PagedItemA ==
    [BlankItem EXCEPT !.lotteryDrawNum = <<2, 1>>,
                      !.lotteryDrawResult =
                          <<0, 1, SP, 0, 2, SP, 0, 3, SP, 0, 4, SP, 0, 5, SP, 0, 6, PLUS, 0, 7>>,
                      !.lotteryDrawTime = <<2, 0, 2, 1>>]

\* {"issue": "22", "lotteryDrawResult": " 08,09;10 11 12 13 14 "}
PagedItemB ==
    [BlankItem EXCEPT !.issue = <<2, 2>>,
                      !.lotteryDrawResult =
                          <<SP, 0, 8, COMMA, 0, 9, SEMI, 1, 0, SP, 1, 1, SP, 1, 2, SP, 1, 3,
                            SP, 1, 4, SP>>,
                      !.date = <<2, 0, 2, 2>>]

\* six tokens only
PagedItemShort ==
    [PagedItemA EXCEPT !.lotteryDrawResult =
                          <<0, 1, SP, 0, 2, SP, 0, 3, SP, 0, 4, SP, 0, 5, PLUS, 0, 7>>]

PageItemLists ==
    {<<>>, <<PagedItemA>>, <<PagedItemB, PagedItemShort>>, <<PagedItemB, ItemNotDict>>}

(* The response to a page query: "reqfail", "badjson" or "ok"; for "ok",   *)
(* the document is not an object ("notdict"), has "value": null            *)
(* ("value_null"), or has the item list under value.list.                  *)
PageResponses ==
    {[status |-> s, where |-> "none", items |-> <<>>] : s \in {"reqfail", "badjson"}}
    \cup {[status |-> "ok", where |-> w, items |-> <<>>] : w \in {"notdict", "value_null"}}
    \cup {[status |-> "ok", where |-> "value.list", items |-> its] : its \in PageItemLists}

\* Responses of the 500.com endpoint tried by main.
MainTableResponses ==
    {[status |-> "reqfail", html |-> NoHtml],
     [status |-> "ok", html |-> NoHtml],
     [status |-> "ok",
      html |-> [has_table |-> TRUE, rows |-> <<MkRow(<<2, 1>>, <<8>>, <<7>>, 16)>>]],
     [status |-> "ok",
      html |-> [has_table |-> TRUE, rows |-> <<MkRow(<<>>, <<0, 8>>, <<7>>, 16)>>]]}

\* Responses of the cwl endpoint tried by main.
MainCwlResponses ==
    {[status |-> "reqfail", where |-> "none", items |-> <<>>],
     [status |-> "badjson", where |-> "none", items |-> <<>>],
     [status |-> "ok", where |-> "result", items |-> <<ItemGoodStr>>],
     [status |-> "ok", where |-> "value.list", items |-> <<ItemGoodList, ItemNotDict>>]}

MainArgs ==
    {a \in [source : Sources, max_pages : 1..MaxPagesBound, output_has_dir : BOOLEAN,
            selftest : BOOLEAN] :
        a.selftest => (a.source = "all" /\ a.max_pages = 1)}

notMain == <<env, mergeVars, transportVars, tableVars, cwlVars>>

Init ==
    /\ env \in Envs
    /\ pc = "start"
    /\ args \in MainArgs
    /\ all_records = <<>>
    /\ qlog = <<>>
    /\ plog = <<>>
    /\ page_no = 1
    /\ recs = <<>>
    /\ escaped = FALSE
    /\ final_records = <<>>
    /\ file = NoFile
    /\ exit = "running"
    /\ MergeIdle /\ TransportIdle /\ TableIdle /\ CwlIdle

\* run_selftest's embedded payloads.
SelftestItem ==
    [BlankItem EXCEPT !.lotteryDrawNum = <<2, 0, 2, 3, 0, 0, 1>>,
                      !.lotteryDrawResult =
                          <<0, 1, SP, 0, 2, SP, 0, 3, SP, 0, 4, SP, 0, 5, SP, 0, 6, PLUS, 0, 7>>,
                      !.lotteryDrawTime = <<2, 0, 2, 3, 0, 1, 0, 3>>]

SelftestHtml ==
    [has_table |-> TRUE,
     rows |-> <<(<<(<<2, 0, 2, 3, 0, 0, 2>>), Num(8), Num(9), Num(10), Num(11), Num(12),
                   Num(13), Num(16), <<>>, <<>>, <<>>, <<>>, <<>>, <<>>, <<>>,
                   <<2, 0, 2, 3, 0, 1, 0, 5>>>>)>>]

\* The records run_selftest builds before it merges them.
SelftestRecords ==
    LET nums == Split(Strip(SelftestItem.lotteryDrawResult), PagedDelims)
    IN  <<DrawRecord(SelftestItem.lotteryDrawNum, SubSeq(nums, 1, 6), nums[7],
                     SelftestItem.lotteryDrawTime)>>
        \o Parse500HistoryHtml(env.bs, SelftestHtml)

\* main with --selftest: return run_selftest(args.output)
MainSelftest ==
    /\ pc = "start"
    /\ args.selftest
    /\ LET final == DedupeAndSort(SelftestRecords)
           saved == SaveToCsv(file, final, args.output_has_dir)
       IN  /\ final_records' = final
           /\ file' = saved.file
           /\ exit' = IF saved.raised THEN "exception" ELSE "0"
    /\ pc' = "exit"
    /\ UNCHANGED <<args, all_records, qlog, plog, page_no, recs, escaped, notMain>>

\* main: all_records = []
MainStart ==
    /\ pc = "start"
    /\ ~args.selftest
    /\ pc' = "sporttery"
    /\ UNCHANGED <<args, all_records, qlog, plog, page_no, recs, escaped,
                   final_records, file, exit, notMain>>

\* if args.source in ("all", "sporttery"): not taken
SkipSporttery ==
    /\ pc = "sporttery"
    /\ args.source \notin {"all", "sporttery"}
    /\ pc' = "s500"
    /\ UNCHANGED <<args, all_records, qlog, plog, page_no, recs, escaped,
                   final_records, file, exit, notMain>>

\* The paged source function is called: try_fetch_from_cwl(HttpClient(), ..)
\* with requests, fetch_from_sporttery_with_urllib(..) without.
EnterPaged ==
    /\ pc = "sporttery"
    /\ args.source \in {"all", "sporttery"}
    /\ page_no' = 1
    /\ recs' = <<>>
    /\ pc' = "page"
    /\ UNCHANGED <<args, all_records, qlog, plog, escaped, final_records, file, exit,
                   notMain>>

\* A page condition that never ends the loop.
StopsPagingNever(items) == FALSE

\* if not items: break
StopsPaging(items) == items = <<>>

Query(endpoint, page) == [endpoint |-> endpoint, page |-> page]

\* fetch_from_sporttery_with_urllib, one iteration of the page loop.
\* _urllib_get is outside the try: its exception leaves the function, and so
\* does one raised by data.get or it.get; main's `except Exception: pass`
\* then extends all_records by nothing.  Invalid JSON and an empty item list
\* break the loop, and the function returns its records.
PageQueryUrllib ==
    /\ pc = "page"
    /\ ~env.requests
    /\ page_no <= args.max_pages
    /\ \E resp \in PageResponses :
          /\ qlog' = Append(qlog, Query("sporttery", page_no))
          /\ plog' = Append(plog, resp)
          /\ IF resp.status = "reqfail" \/ (resp.status = "ok" /\ resp.where = "notdict")
             THEN /\ escaped' = TRUE
                  /\ pc' = "s500"
                  /\ UNCHANGED <<all_records, recs, page_no>>
             ELSE IF resp.status = "badjson" \/ StopsPaging(resp.items)
             THEN /\ all_records' = all_records \o recs
                  /\ pc' = "s500"
                  /\ UNCHANGED <<recs, page_no, escaped>>
             ELSE LET out == PagedItems(resp.items)
                  IN  IF out.raised
                      THEN /\ escaped' = TRUE
                           /\ pc' = "s500"
                           /\ UNCHANGED <<all_records, recs, page_no>>
                      ELSE /\ recs' = recs \o out.recs
                           /\ page_no' = page_no + 1
                           /\ UNCHANGED <<all_records, pc, escaped>>
    /\ UNCHANGED <<args, final_records, file, exit, notMain>>

\* try_fetch_from_cwl, one iteration of the page loop of the paged candidate.
\* get_json raises for a failed request and for invalid JSON; every exception
\* is caught by `except Exception: continue`, which goes on to the next
\* candidate with `records` as it is.  An empty list breaks the loop.
PageQuerySession ==
    /\ pc = "page"
    /\ env.requests
    /\ page_no <= args.max_pages
    /\ \E resp \in PageResponses :
          /\ qlog' = Append(qlog, Query("sporttery", page_no))
          /\ plog' = Append(plog, resp)
          /\ IF resp.status # "ok" \/ resp.where \in {"notdict", "value_null"}
             THEN /\ pc' = "candidate2"
                  /\ UNCHANGED <<recs, page_no>>
             ELSE IF StopsPaging(resp.items)
             THEN /\ pc' = "candidate2"
                  /\ UNCHANGED <<recs, page_no>>
             ELSE LET out == PagedItems(resp.items)
                  IN  /\ recs' = recs \o out.recs
                      /\ IF out.raised
                         THEN pc' = "candidate2" /\ UNCHANGED page_no
                         ELSE page_no' = page_no + 1 /\ UNCHANGED pc
    /\ UNCHANGED <<args, all_records, escaped, final_records, file, exit, notMain>>

\* range(1, max_pages + 1) is exhausted.
PageLoopEnd ==
    /\ pc = "page"
    /\ page_no > args.max_pages
    /\ IF env.requests
       THEN pc' = "candidate2" /\ UNCHANGED all_records
       ELSE pc' = "s500" /\ all_records' = all_records \o recs
    /\ UNCHANGED <<args, qlog, plog, page_no, recs, escaped, final_records, file, exit,
                   notMain>>

\* try_fetch_from_cwl, the second candidate (the cwl endpoint, not paged),
\* then `return records` and main's all_records.extend(..).
SessionSecondCandidate ==
    /\ pc = "candidate2"
    /\ \E resp \in MainCwlResponses :
          /\ qlog' = Append(qlog, Query("cwl", 0))
          /\ recs' = recs \o TryFetchNonPaged(resp)
          /\ all_records' = all_records \o recs \o TryFetchNonPaged(resp)
    /\ pc' = "s500"
    /\ UNCHANGED <<args, plog, page_no, escaped, final_records, file, exit, notMain>>

\* if args.source in ("all", "500"): not taken
Skip500 ==
    /\ pc = "s500"
    /\ args.source \notin {"all", "500"}
    /\ pc' = "cwl"
    /\ UNCHANGED <<args, all_records, qlog, plog, page_no, recs, escaped,
                   final_records, file, exit, notMain>>

\* fetch_from_500_with_requests / fetch_from_500_with_urllib inside try:
\* a transport error is passed over, a page is parsed.
Fetch500 ==
    /\ pc = "s500"
    /\ args.source \in {"all", "500"}
    /\ \E resp \in MainTableResponses :
          /\ qlog' = Append(qlog, Query("500", 0))
          /\ all_records' = IF resp.status = "reqfail" THEN all_records
                            ELSE all_records \o Parse500HistoryHtml(env.bs, resp.html)
    /\ pc' = "cwl"
    /\ UNCHANGED <<args, plog, page_no, recs, escaped, final_records, file, exit,
                   notMain>>

\* if args.source in ("all", "cwl") and not requests: not taken
SkipCwl ==
    /\ pc = "cwl"
    /\ ~(args.source \in {"all", "cwl"} /\ ~env.requests)
    /\ pc' = "merge"
    /\ UNCHANGED <<args, all_records, qlog, plog, page_no, recs, escaped,
                   final_records, file, exit, notMain>>

\* all_records.extend(fetch_from_cwl_with_urllib(..)) inside try
FetchCwl ==
    /\ pc = "cwl"
    /\ args.source \in {"all", "cwl"} /\ ~env.requests
    /\ \E resp \in MainCwlResponses :
          /\ qlog' = Append(qlog, Query("cwl", 0))
          /\ all_records' = LET out == FetchFromCwlWithUrllib(resp)
                            IN  IF out.raised THEN all_records
                                ELSE all_records \o out.recs
    /\ pc' = "merge"
    /\ UNCHANGED <<args, plog, page_no, recs, escaped, final_records, file, exit,
                   notMain>>

\* final_records = dedupe_and_sort(all_records); if not final_records: return 2
MainNoRecords ==
    /\ pc = "merge"
    /\ DedupeAndSort(all_records) = <<>>
    /\ final_records' = <<>>
    /\ exit' = "2"
    /\ pc' = "exit"
    /\ UNCHANGED <<args, all_records, qlog, plog, page_no, recs, escaped, file, notMain>>

\* save_to_csv(final_records, args.output); return 0
MainSave ==
    /\ pc = "merge"
    /\ DedupeAndSort(all_records) # <<>>
    /\ LET final == DedupeAndSort(all_records)
           saved == SaveToCsv(file, final, args.output_has_dir)
       IN  /\ final_records' = final
           /\ file' = saved.file
           /\ exit' = IF saved.raised THEN "exception" ELSE "0"
    /\ pc' = "exit"
    /\ UNCHANGED <<args, all_records, qlog, plog, page_no, recs, escaped, notMain>>

Next ==
    \/ MainSelftest \/ MainStart
    \/ SkipSporttery \/ EnterPaged
    \/ PageQueryUrllib \/ PageQuerySession \/ PageLoopEnd \/ SessionSecondCandidate
    \/ Skip500 \/ Fetch500
    \/ SkipCwl \/ FetchCwl
    \/ MainNoRecords \/ MainSave

Spec == Init /\ [][Next]_vars

----------------------------------------------------------------------------
(* Properties of main *)

\* The pages asked of the paged endpoint, in the order asked.
PagesQueried ==
    LET pq == SelectSeq(qlog, LAMBDA q : q.endpoint = "sporttery")
    IN  [i \in 1..Len(pq) |-> pq[i].page]

\* The page's item list is empty.
EmptyPage(resp) == resp.status = "ok" /\ resp.where = "value.list" /\ resp.items = <<>>

\* C3: the paged source asks for pages 1, 2, 3, .. in that order, one query
\* for each, never more than max_pages of them, and asks for none after the
\* first page whose item list is empty.
C3_PagesInOrder ==
    /\ \A i \in 1..Len(PagesQueried) : PagesQueried[i] = i
    /\ Len(PagesQueried) <= args.max_pages
    /\ Len(plog) = Len(PagesQueried)
    /\ \A i \in 1..Len(plog) : EmptyPage(plog[i]) => Len(PagesQueried) = i

\* C3 witness: with max_pages = 3 the session-based source asked for pages 1
\* and 2, page 2 was empty, and main has finished without a third query.
C3_Witness ==
    /\ pc = "exit"
    /\ env.requests
    /\ args.max_pages = 3
    /\ PagesQueried = <<1, 2>>
    /\ EmptyPage(plog[2])

\* The same for the dependency-free source.
C3_WitnessUrllib ==
    /\ pc = "exit"
    /\ ~env.requests
    /\ args.max_pages = 3
    /\ PagesQueried = <<1, 2>>
    /\ EmptyPage(plog[2])

RECURSIVE RecordsOfPages(_)
\* The records the item loop appends for the given page responses.
RecordsOfPages(pages) ==
    IF pages = <<>> THEN <<>>
    ELSE PagedItems(Head(pages).items).recs \o RecordsOfPages(Tail(pages))

IsPrefix(p, s) == Len(p) <= Len(s) /\ SubSeq(s, 1, Len(p)) = p

\* The paged source has ended on a page whose request or JSON decoding failed.
PageFailed ==
    /\ pc \in {"s500", "cwl", "merge", "exit"}
    /\ plog # <<>>
    /\ plog[Len(plog)].status \in {"reqfail", "badjson"}

\* C4: when the request or the JSON decoding of page k fails, no exception
\* leaves the source function and the records of pages 1 .. k-1 are returned
\* and reach the merger (all_records), on both paths.
C4_PartialPagesKept ==
    PageFailed =>
        /\ ~escaped
        /\ IsPrefix(RecordsOfPages(SubSeq(plog, 1, Len(plog) - 1)), all_records)

\* C4 holds of the session-based path.
PartialPagesKeptBySession ==
    (PageFailed /\ env.requests) =>
        /\ ~escaped
        /\ IsPrefix(RecordsOfPages(SubSeq(plog, 1, Len(plog) - 1)), all_records)

\* C4 holds of the dependency-free path when it is the JSON decoding that fails.
PartialPagesKeptOnBadJson ==
    (PageFailed /\ ~env.requests /\ plog[Len(plog)].status = "badjson") =>
        /\ ~escaped
        /\ IsPrefix(RecordsOfPages(SubSeq(plog, 1, Len(plog) - 1)), all_records)

\* C7: in normal operation main returns 2 exactly when the merged records are
\* empty, and then writes no file; otherwise it writes the file exactly once
\* and returns 0; no exception leaves main.
C7_ExitCode ==
    (pc = "exit" /\ ~args.selftest) =>
        /\ exit \in {"0", "2"}
        /\ exit = "2" <=> DedupeAndSort(all_records) = <<>>
        /\ exit = "2" => file.writes = 0
        /\ DedupeAndSort(all_records) # <<>> => (file.writes = 1 /\ exit = "0")

\* C7 holds when --output names a path with a directory part, whatever the
\* sources did: an exception inside a source never changes the outcome.
ExitCodeWithOutputDirectory ==
    (pc = "exit" /\ ~args.selftest /\ args.output_has_dir) =>
        /\ exit \in {"0", "2"}
        /\ exit = "2" <=> DedupeAndSort(all_records) = <<>>
        /\ exit = "2" => file.writes = 0
        /\ DedupeAndSort(all_records) # <<>> => (file.writes = 1 /\ exit = "0")
        /\ file.rows = [i \in 1..Len(final_records) |-> ToRow(final_records[i])]

\* The endpoints --source selects.
Selected(source) == IF source = "all" THEN {"sporttery", "500", "cwl"} ELSE {source}

EndpointsQueried == {qlog[i].endpoint : i \in 1..Len(qlog)}

\* C8: whichever transport is available, main queries exactly the endpoints
\* --source selects: all three for 'all', and for 'sporttery', '500' or 'cwl'
\* that one, always, and no other.
C8_SelectedSources ==
    (pc = "exit" /\ ~args.selftest) => EndpointsQueried = Selected(args.source)

\* C8 holds when requests is not installed.
SelectedSourcesWithoutRequests ==
    (pc = "exit" /\ ~args.selftest /\ ~env.requests) =>
        EndpointsQueried = Selected(args.source)

\* The rows main writes are the merged records, so they are in ascending
\* issue order (C2, seen at the output file).
FileRowsAscending ==
    file.writes > 0 =>
        /\ Len(file.rows) = Len(final_records)
        /\ \A i \in 1..(Len(file.rows) - 1) : StrLess(file.rows[i][1], file.rows[i + 1][1])

====
